---- MODULE Spec2Model ----
(***************************************************************************)
(* A model of kernel/kcov.c: the coverage descriptor state machine, the    *)
(* trace sinks, the remote handle registry with its scratch free-list and  *)
(* the merge.  A step of the model is one critical section of the code (or *)
(* the lock-free code between two critical sections); a task that is       *)
(* between two steps of one function keeps its position in pc and its      *)
(* local variables in loc.                                                 *)
(*                                                                         *)
(* Memory that has been freed keeps its last contents (kstate / mem.st     *)
(* say "freed"); an access to it is recorded in the history variable uaf   *)
(* and then proceeds on the stale contents.  A NULL dereference kills the  *)
(* task on the spot (oops), with whatever lock it holds left held.         *)
(***************************************************************************)
EXTENDS Integers, Sequences, FiniteSets, TLC

\* ------------------------------------------------------------- bounds
MaxSize == 3          \* largest buffer size (words) given to KCOV_INIT_TRACE in Spec
MaxSeq == 3           \* the enable/disable ioctls are cut off at this sequence
MaxScratch == 2       \* scratch buffers vmalloc can hand out
MaxCalls == 5         \* sink calls recorded in the sink specifications
MaxWords == 9         \* largest buffer (words) in the sink and merge specifications

\* ---------------------------------------------------- program constants
KCOV_WORDS_PER_CMP == 4
word_size == 8        \* sizeof(unsigned long) = sizeof(u64), 64-bit build
INT_MAX == 2147483647

Tasks == {1, 2}
Kcovs == {1, 2}
Handles == {1, 2}
NULL == 0

Min(a, b) == IF a <= b THEN a ELSE b

\* Buffer ids: buffer k is the one vmalloc_user returns to the first
\* successful mmap on descriptor k, the others are the scratch buffers.
ScratchIds == {2 + i : i \in 1..MaxScratch}
Bufs == Kcovs \cup ScratchIds

VARIABLES
    kcov,               \* struct kcov, per descriptor
    kstate,             \* "none" (not allocated), "live", "freed"
    file,               \* the descriptor's file is open
    klock,              \* kcov->lock: holder task or NULL
    task,               \* the kcov fields of task_struct
    pc,                 \* position of each task
    loc,                \* locals of the function a task is inside
    kcov_remote_map,    \* the handle table, most recent entry first
    kcov_remote_areas,  \* the scratch free-list, most recent first
    kcov_remote_lock,   \* holder task or NULL
    mem,                \* the buffers
    last,               \* history: result of the most recent file operation
    win,                \* history: the remote window each task is inside
    uaf,                \* history: freed memory was accessed
    nfree,              \* history: number of kfree(kcov) per descriptor
    log,                \* history: sink calls made in an enabled mode
    obs                 \* which history the run records (fixed by Init)

vars == <<kcov, kstate, file, klock, task, pc, loc, kcov_remote_map,
          kcov_remote_areas, kcov_remote_lock, mem, last, win, uaf, nfree, log, obs>>

\* ----------------------------------------------------------- records
ZeroKcov ==
    [refcount |-> 0, mode |-> "DISABLED", size |-> 0, area |-> NULL, t |-> NULL,
     remote |-> FALSE, remote_size |-> 0, sequence |-> 0]

NoLoc ==
    [kcov |-> NULL, area |-> NULL, size |-> 0, mode |-> "DISABLED",
     sequence |-> 0, stale |-> FALSE, err |-> "OK", after |-> "idle",
     unlock |-> FALSE, todo |-> <<>>]

NoWin ==
    [kcov |-> NULL, disabled |-> FALSE, started |-> FALSE, closed |-> FALSE,
     exited |-> FALSE]

NoBuf == [st |-> "none", w |-> <<>>, hsize |-> 0]

Zeros(n) == [i \in 1..n |-> 0]

\* ------------------------------------------------- per-task state helpers
kcov_start(tk, size, area, mode, sequence) ==
    [tk EXCEPT !.kcov_size = size, !.kcov_area = area, !.kcov_mode = mode,
               !.kcov_sequence = sequence]

kcov_stop(tk) ==
    [tk EXCEPT !.kcov_mode = "DISABLED", !.kcov_size = 0, !.kcov_area = NULL]

kcov_task_init(tk) ==
    [kcov_stop(tk) EXCEPT !.kcov = NULL, !.kcov_sequence = 0]

InitTask == kcov_task_init([kcov |-> NULL, kcov_mode |-> "DISABLED", kcov_size |-> 0,
                            kcov_area |-> NULL, kcov_sequence |-> 0])

\* ------------------------------------------------ descriptor helpers
kcov_reset_none(kc) == kc

kcov_reset_noseq(kc) ==
    [kc EXCEPT !.t = NULL, !.mode = "INIT", !.remote = FALSE, !.remote_size = 0]

kcov_reset(kc) ==
    [kc EXCEPT !.t = NULL, !.mode = "INIT", !.remote = FALSE, !.remote_size = 0,
               !.sequence = kc.sequence + 1]

kcov_get(kc) == [kc EXCEPT !.refcount = kc.refcount + 1]

\* The entries of the table that kcov_remote_reset(k) leaves.
PurgeKeepAll(map, k) == map

Purge(map, k) == SelectSeq(map, LAMBDA e : e.kcov # k)

\* kcov_remote_find: index of the first entry with this handle, or 0.
kcov_remote_find(map, handle) ==
    IF \E i \in 1..Len(map) : map[i].handle = handle
    THEN CHOOSE i \in 1..Len(map) :
            /\ map[i].handle = handle
            /\ \A j \in 1..(i - 1) : map[j].handle # handle
    ELSE 0

kcov_get_mode(arg) ==
    IF arg = 0 THEN "TRACE_PC"
    ELSE IF arg = 1 THEN "TRACE_CMP"
    ELSE "EINVAL"

\* ------------------------------------------------------------- Init
InitWith(o) ==
    /\ obs = o
    /\ kcov = [k \in Kcovs |-> ZeroKcov]
    /\ kstate = [k \in Kcovs |-> "none"]
    /\ file = [k \in Kcovs |-> FALSE]
    /\ klock = [k \in Kcovs |-> NULL]
    /\ task = [t \in Tasks |-> InitTask]
    /\ pc = [t \in Tasks |-> "idle"]
    /\ loc = [t \in Tasks |-> NoLoc]
    /\ kcov_remote_map = <<>>
    /\ kcov_remote_areas = <<>>
    /\ kcov_remote_lock = NULL
    /\ mem = [b \in Bufs |-> NoBuf]
    /\ last = [t |-> NULL, k |-> NULL, cmd |-> "none", res |-> "OK"]
    /\ win = [t \in Tasks |-> NoWin]
    /\ uaf = FALSE
    /\ nfree = [k \in Kcovs |-> 0]
    /\ log = <<>>

Init == InitWith([last |-> FALSE, log |-> FALSE])

\* --------------------------------------------------------- shorthands
Touch(k) == kstate[k] = "freed"

Ret(t, k, cmd, res) ==
    last' = IF obs.last THEN [t |-> t, k |-> k, cmd |-> cmd, res |-> res] ELSE last

\* The tasks whose looked-up registry entry kcov_remote_reset(k) has just
\* kfree()d: their local pointer "remote" dangles from now on.
StaleLocs(k) ==
    [u \in Tasks |-> IF pc[u] = "rs_area" /\ loc[u].kcov = k
                     THEN [loc[u] EXCEPT !.stale = TRUE] ELSE loc[u]]

\* History: KCOV_DISABLE on descriptor k ran inside the windows open on it.
WinDisabled(k) ==
    [u \in Tasks |-> IF win[u].kcov = k THEN [win[u] EXCEPT !.disabled = TRUE]
                     ELSE win[u]]

\* History: the file of descriptor k was closed inside the windows open on it.
WinClosed(k) ==
    [u \in Tasks |-> IF win[u].kcov = k THEN [win[u] EXCEPT !.closed = TRUE]
                     ELSE win[u]]

\* History: the owner of descriptor k exited inside the windows open on it.
WinExited(k) ==
    [u \in Tasks |-> IF win[u].kcov = k THEN [win[u] EXCEPT !.exited = TRUE]
                     ELSE win[u]]

\* ------------------------------------------------------ file operations
kcov_open(t, k) ==
    /\ pc[t] = "idle"
    /\ kstate[k] = "none"
    /\ \/ /\ kcov' = [kcov EXCEPT ![k] = [ZeroKcov EXCEPT !.mode = "DISABLED",
                                                       !.sequence = 1,
                                                       !.refcount = 1]]
          /\ kstate' = [kstate EXCEPT ![k] = "live"]
          /\ file' = [file EXCEPT ![k] = TRUE]
          /\ Ret(t, k, "open", "OK")
       \/ /\ Ret(t, k, "open", "ENOMEM")
          /\ UNCHANGED <<kcov, kstate, file>>
    /\ UNCHANGED <<klock, task, pc, loc, kcov_remote_map, kcov_remote_areas,
                   kcov_remote_lock, mem, win, uaf, nfree, log, obs>>

\* A file operation on descriptor k can start: the file is open and
\* spin_lock(&kcov->lock) succeeds.
FileOp(t, k) ==
    /\ pc[t] = "idle"
    /\ file[k]
    /\ klock[k] = NULL

\* The checks of KCOV_INIT_TRACE: the errno, or "OK".
init_trace_check_nomin(kc, arg) ==
    IF kc.mode # "DISABLED" THEN "EBUSY"
    ELSE IF arg > INT_MAX \div word_size THEN "EINVAL"
    ELSE "OK"

init_trace_check(kc, arg) ==
    IF kc.mode # "DISABLED" THEN "EBUSY"
    ELSE IF arg < 2 \/ arg > INT_MAX \div word_size THEN "EINVAL"
    ELSE "OK"

KCOV_INIT_TRACE(t, k, arg) ==
    /\ FileOp(t, k)
    /\ IF init_trace_check(kcov[k], arg) # "OK"
       THEN Ret(t, k, "INIT_TRACE", init_trace_check(kcov[k], arg)) /\ UNCHANGED kcov
       ELSE /\ kcov' = [kcov EXCEPT ![k].size = arg, ![k].mode = "INIT"]
            /\ Ret(t, k, "INIT_TRACE", "OK")
    /\ uaf' = (uaf \/ Touch(k))
    /\ UNCHANGED <<kstate, file, klock, task, pc, loc, kcov_remote_map,
                   kcov_remote_areas, kcov_remote_lock, mem, win, nfree, log, obs>>

\* kcov_mmap attaches its region only to a descriptor that has none.
mmap_attaches_always(kc) == TRUE

mmap_attaches(kc) == kc.area = NULL

kcov_mmap(t, k, pgoff, len, nomem) ==
    /\ FileOp(t, k)
    /\ IF nomem
       THEN Ret(t, k, "mmap", "ENOMEM") /\ UNCHANGED <<kcov, mem, uaf>>
       ELSE /\ uaf' = (uaf \/ Touch(k))
            /\ IF kcov[k].mode # "INIT" \/ pgoff # 0
                  \/ len # kcov[k].size * word_size
               THEN Ret(t, k, "mmap", "EINVAL") /\ UNCHANGED <<kcov, mem>>
               ELSE IF mmap_attaches(kcov[k])
               THEN /\ kcov' = [kcov EXCEPT ![k].area = k]
                    /\ mem' = [mem EXCEPT ![k] = [st |-> "live",
                                                 w |-> Zeros(kcov[k].size),
                                                 hsize |-> 0]]
                    /\ Ret(t, k, "mmap", "OK")
               ELSE Ret(t, k, "mmap", "OK") /\ UNCHANGED <<kcov, mem>>
    /\ UNCHANGED <<kstate, file, klock, task, pc, loc, kcov_remote_map,
                   kcov_remote_areas, kcov_remote_lock, win, nfree, log, obs>>

\* The checks that open KCOV_ENABLE and KCOV_REMOTE_ENABLE: the errno, or "OK".
enable_check(kc, tk, arg) ==
    IF kc.mode # "INIT" \/ kc.area = NULL THEN "EINVAL"
    ELSE IF kc.t # NULL \/ tk.kcov # NULL THEN "EBUSY"
    ELSE kcov_get_mode(arg)

KCOV_ENABLE(t, k, arg) ==
    /\ FileOp(t, k)
    /\ IF enable_check(kcov[k], task[t], arg) \in {"EINVAL", "EBUSY"}
       THEN /\ Ret(t, k, "ENABLE", enable_check(kcov[k], task[t], arg))
            /\ UNCHANGED <<kcov, task>>
       ELSE /\ task' = [task EXCEPT ![t] =
                 [kcov_start(task[t], kcov[k].size, kcov[k].area,
                             kcov_get_mode(arg), kcov[k].sequence)
                  EXCEPT !.kcov = k]]
            /\ kcov' = [kcov EXCEPT ![k] =
                 kcov_get([kcov[k] EXCEPT !.mode = kcov_get_mode(arg), !.t = t])]
            /\ Ret(t, k, "ENABLE", "OK")
    /\ uaf' = (uaf \/ Touch(k))
    /\ UNCHANGED <<kstate, file, klock, pc, loc, kcov_remote_map,
                   kcov_remote_areas, kcov_remote_lock, mem, win, nfree, log, obs>>

kcov_ioctl_unknown(t, k) ==
    /\ FileOp(t, k)
    /\ Ret(t, k, "unknown", "ENOTTY")
    /\ uaf' = (uaf \/ Touch(k))
    /\ UNCHANGED <<kcov, kstate, file, klock, task, pc, loc, kcov_remote_map,
                   kcov_remote_areas, kcov_remote_lock, mem, win, nfree, log, obs>>

\* The insertion loop of KCOV_REMOTE_ENABLE from handles[i] on; kmalloc fails
\* at index failAt (0: never).  hash_add puts the new entry first.
RECURSIVE AddHandles(_, _, _, _, _)
AddHandles(map, k, hs, i, failAt) ==
    IF i > Len(hs) THEN [map |-> map, err |-> "OK"]
    ELSE IF kcov_remote_find(map, hs[i]) # 0 THEN [map |-> map, err |-> "EEXIST"]
    ELSE IF failAt = i THEN [map |-> map, err |-> "ENOMEM"]
    ELSE AddHandles(<<[handle |-> hs[i], kcov |-> k]>> \o map, k, hs, i + 1, failAt)

\* kcov_ioctl + kcov_ioctl_locked, case KCOV_REMOTE_ENABLE, up to the
\* spin_unlock(&kcov_remote_lock) that ends the insertion loop.
KCOV_REMOTE_ENABLE(t, k, ra, failAt) ==
    /\ pc[t] = "idle"
    /\ file[k]
    /\ IF ra.unused # 0
       THEN /\ Ret(t, k, "REMOTE_ENABLE", "EINVAL")
            /\ UNCHANGED <<kcov, task, kcov_remote_map, pc, loc, klock, uaf>>
       ELSE
       /\ klock[k] = NULL
       /\ uaf' = (uaf \/ Touch(k))
       /\ IF enable_check(kcov[k], task[t], ra.trace_mode) \in {"EINVAL", "EBUSY"}
          THEN /\ Ret(t, k, "REMOTE_ENABLE",
                      enable_check(kcov[k], task[t], ra.trace_mode))
               /\ UNCHANGED <<kcov, task, kcov_remote_map, pc, loc, klock>>
          ELSE
          LET kc == [kcov[k] EXCEPT !.mode = kcov_get_mode(ra.trace_mode), !.t = t,
                                    !.remote = TRUE, !.remote_size = ra.area_size]
              r == AddHandles(kcov_remote_map, k, ra.handles, 1, failAt)
          IN  /\ kcov_remote_lock = NULL
              /\ task' = [task EXCEPT ![t].kcov = k]
              /\ kcov_remote_map' = r.map
              /\ IF r.err = "OK"
                 THEN /\ kcov' = [kcov EXCEPT ![k] = kcov_get(kc)]
                      /\ Ret(t, k, "REMOTE_ENABLE", "OK")
                      /\ UNCHANGED <<pc, loc, klock>>
                 ELSE /\ kcov' = [kcov EXCEPT ![k] = kc]
                      /\ pc' = [pc EXCEPT ![t] = "re_fail"]
                      /\ loc' = [loc EXCEPT ![t] = [NoLoc EXCEPT !.kcov = k,
                                                                !.err = r.err]]
                      /\ klock' = [klock EXCEPT ![k] = t]
                      /\ UNCHANGED last
    /\ UNCHANGED <<kstate, file, kcov_remote_areas, kcov_remote_lock, mem, win,
                   nfree, log, obs>>

\* The error path of KCOV_REMOTE_ENABLE: kcov_remote_reset(kcov), return.
KCOV_REMOTE_ENABLE_fail(t) ==
    LET k == loc[t].kcov IN
    /\ pc[t] = "re_fail"
    /\ kcov_remote_lock = NULL
    /\ kcov_remote_map' = Purge(kcov_remote_map, k)
    /\ kcov' = [kcov EXCEPT ![k] = kcov_reset(kcov[k])]
    /\ klock' = [klock EXCEPT ![k] = NULL]
    /\ pc' = [pc EXCEPT ![t] = "idle"]
    /\ loc' = [StaleLocs(k) EXCEPT ![t] = NoLoc]
    /\ Ret(t, k, "REMOTE_ENABLE", loc[t].err)
    /\ UNCHANGED <<kstate, file, task, kcov_remote_areas, kcov_remote_lock, mem,
                   win, uaf, nfree, log, obs>>

\* kcov_ioctl_locked, case KCOV_DISABLE.  Its kcov_put runs under kcov->lock;
\* should it drop the last reference the free is the step kcov_put_free.
KCOV_DISABLE(t, k, arg) ==
    /\ FileOp(t, k)
    /\ uaf' = (uaf \/ Touch(k))
    /\ IF arg # 0 \/ task[t].kcov # k
       THEN /\ Ret(t, k, "DISABLE", "EINVAL")
            /\ UNCHANGED <<kcov, task, kcov_remote_map, pc, loc, klock, win>>
       ELSE IF kcov[k].t # t
       THEN /\ Ret(t, k, "DISABLE", "EINVAL")
            /\ UNCHANGED <<kcov, task, kcov_remote_map, pc, loc, klock, win>>
       ELSE
       LET kc == kcov_reset(kcov[k])
           zero == kc.refcount - 1 = 0
       IN  /\ task' = [task EXCEPT ![t] = kcov_task_init(task[t])]
           /\ kcov' = [kcov EXCEPT ![k] = [kc EXCEPT !.refcount = kc.refcount - 1]]
           /\ win' = WinDisabled(k)
           /\ IF kcov[k].remote
              THEN /\ kcov_remote_lock = NULL
                   /\ kcov_remote_map' = Purge(kcov_remote_map, k)
              ELSE UNCHANGED kcov_remote_map
           /\ IF zero
              THEN /\ pc' = [pc EXCEPT ![t] = "put_free"]
                   /\ loc' = [IF kcov[k].remote THEN StaleLocs(k) ELSE loc
                              EXCEPT ![t] = [NoLoc EXCEPT !.kcov = k, !.unlock = TRUE]]
                   /\ klock' = [klock EXCEPT ![k] = t]
                   /\ UNCHANGED last
              ELSE /\ loc' = IF kcov[k].remote THEN StaleLocs(k) ELSE loc
                   /\ Ret(t, k, "DISABLE", "OK")
                   /\ UNCHANGED <<pc, klock>>
    /\ UNCHANGED <<kstate, file, kcov_remote_areas, kcov_remote_lock, mem, nfree, log,
                   obs>>

\* kcov_close: the file goes away and its reference is put.  The VFS calls
\* release only when no operation on the file is in progress.
kcov_close(t, k) ==
    /\ FileOp(t, k)
    /\ \A u \in Tasks : pc[u] \in {"re_fail", "put_free"} => loc[u].kcov # k
    /\ file' = [file EXCEPT ![k] = FALSE]
    /\ uaf' = (uaf \/ Touch(k))
    /\ kcov' = [kcov EXCEPT ![k].refcount = kcov[k].refcount - 1]
    /\ IF kcov[k].refcount - 1 = 0
       THEN /\ pc' = [pc EXCEPT ![t] = "put_free"]
            /\ loc' = [loc EXCEPT ![t] = [NoLoc EXCEPT !.kcov = k]]
       ELSE UNCHANGED <<pc, loc>>
    /\ Ret(t, k, "close", "OK")
    /\ win' = WinClosed(k)
    /\ UNCHANGED <<kstate, klock, task, kcov_remote_map, kcov_remote_areas,
                   kcov_remote_lock, mem, nfree, log, obs>>

\* kcov_put, the atomic_dec_and_test: position "put" is a task about to call
\* kcov_put(loc.kcov) outside every lock.
kcov_put(t) ==
    LET k == loc[t].kcov IN
    /\ pc[t] = "put"
    /\ uaf' = (uaf \/ Touch(k))
    /\ kcov' = [kcov EXCEPT ![k].refcount = kcov[k].refcount - 1]
    /\ win' = [win EXCEPT ![t] = NoWin]
    /\ IF kcov[k].refcount - 1 = 0
       THEN /\ pc' = [pc EXCEPT ![t] = "put_free"]
            /\ loc' = [loc EXCEPT ![t] = [NoLoc EXCEPT !.kcov = k,
                                                      !.after = loc[t].after]]
       ELSE /\ pc' = [pc EXCEPT ![t] = loc[t].after]
            /\ loc' = [loc EXCEPT ![t] = NoLoc]
    /\ UNCHANGED <<kstate, file, klock, task, kcov_remote_map, kcov_remote_areas,
                   kcov_remote_lock, mem, last, nfree, log, obs>>

\* kcov_put, the branch taken at zero: kcov_remote_reset, vfree(area), kfree.
kcov_put_free(t) ==
    LET k == loc[t].kcov
        a == kcov[k].area
    IN
    /\ pc[t] = "put_free"
    /\ kcov_remote_lock = NULL
    /\ kcov_remote_map' = Purge(kcov_remote_map, k)
    /\ kcov' = [kcov EXCEPT ![k] = kcov_reset(kcov[k])]
    /\ mem' = IF a = NULL THEN mem ELSE [mem EXCEPT ![a].st = "freed"]
    /\ kstate' = [kstate EXCEPT ![k] = "freed"]
    /\ nfree' = [nfree EXCEPT ![k] = nfree[k] + 1]
    /\ uaf' = (uaf \/ Touch(k) \/ (a # NULL /\ mem[a].st = "freed") \/ loc[t].unlock)
    /\ pc' = [pc EXCEPT ![t] = loc[t].after]
    /\ loc' = [StaleLocs(k) EXCEPT ![t] = NoLoc]
    /\ IF loc[t].unlock
       THEN klock' = [klock EXCEPT ![k] = NULL] /\ Ret(t, k, "DISABLE", "OK")
       ELSE UNCHANGED <<klock, last>>
    /\ UNCHANGED <<file, task, kcov_remote_areas, kcov_remote_lock, win, log, obs>>

\* kcov_task_exit up to its spin_unlock(&kcov->lock); the task is gone after it,
\* or after the kcov_put that follows.
kcov_task_exit(t) ==
    LET k == task[t].kcov IN
    /\ pc[t] = "idle"
    /\ IF k = NULL
       THEN /\ pc' = [pc EXCEPT ![t] = "dead"]
            /\ UNCHANGED <<kcov, task, kcov_remote_map, loc, win, uaf>>
       ELSE
       /\ klock[k] = NULL
       /\ uaf' = (uaf \/ Touch(k))
       /\ IF kcov[k].t # t
          THEN /\ pc' = [pc EXCEPT ![t] = "dead"]
               /\ UNCHANGED <<kcov, task, kcov_remote_map, loc, win>>
          ELSE /\ task' = [task EXCEPT ![t] = kcov_task_init(task[t])]
               /\ kcov' = [kcov EXCEPT ![k] = kcov_reset(kcov[k])]
               /\ win' = WinExited(k)
               /\ IF kcov[k].remote
                  THEN /\ kcov_remote_lock = NULL
                       /\ kcov_remote_map' = Purge(kcov_remote_map, k)
                  ELSE UNCHANGED kcov_remote_map
               /\ pc' = [pc EXCEPT ![t] = "put"]
               /\ loc' = [IF kcov[k].remote THEN StaleLocs(k) ELSE loc
                          EXCEPT ![t] = [NoLoc EXCEPT !.kcov = k, !.after = "dead"]]
    /\ UNCHANGED <<kstate, file, klock, kcov_remote_areas, kcov_remote_lock, mem,
                   last, nfree, log, obs>>

\* ------------------------------------------------------ the trace sinks
\* A store to word i - 1 of a buffer whose words are w; a store past the end of
\* the buffer shows as a sequence longer than the buffer.
Store(w, i, v) ==
    [j \in 1..(IF i > Len(w) THEN i ELSE Len(w)) |->
        IF j = i THEN v ELSE IF j <= Len(w) THEN w[j] ELSE 0]

check_kcov_mode_any(needed_mode, tk, in_task) == in_task /\ tk.kcov_mode # "DISABLED"

check_kcov_mode(needed_mode, tk, in_task) ==
    IF ~in_task THEN FALSE ELSE tk.kcov_mode = needed_mode

\* The words of the task's area after __sanitizer_cov_trace_pc; word i of the
\* C buffer is element i + 1 of the sequence.
trace_pc_words_nobound(w, kcov_size, ip) ==
    LET pos == w[1] + 1 IN Store(Store(w, pos + 1, ip), 1, pos)

trace_pc_words(w, kcov_size, ip) ==
    LET pos == w[1] + 1 IN
    IF pos < kcov_size THEN Store(Store(w, pos + 1, ip), 1, pos) ELSE w

sanitizer_cov_trace_pc(t, ip, in_task) ==
    LET a == task[t].kcov_area IN
    /\ pc[t] # "dead"
    /\ IF ~check_kcov_mode("TRACE_PC", task[t], in_task)
       THEN UNCHANGED <<mem, uaf>>
       ELSE /\ a # NULL
            /\ mem' = [mem EXCEPT ![a].w = trace_pc_words(mem[a].w, task[t].kcov_size, ip)]
            /\ uaf' = (uaf \/ mem[a].st = "freed")
    /\ log' = IF obs.log /\ in_task /\ task[t].kcov_mode = "TRACE_PC"
              THEN Append(log, <<ip>>) ELSE log
    /\ Ret(t, NULL, "trace_pc", IF in_task THEN "task" ELSE "irq")
    /\ UNCHANGED <<kcov, kstate, file, klock, task, pc, loc, kcov_remote_map,
                   kcov_remote_areas, kcov_remote_lock, win, nfree, obs>>

\* The words after write_comp_data; the area is read as u64 words, and
\* sizeof(u64) = sizeof(unsigned long) = word_size.
write_comp_words_off(w, kcov_size, type, arg1, arg2, ip) ==
    LET count == w[1]
        start_index == 1 + count * KCOV_WORDS_PER_CMP
        end_pos == start_index * word_size
        max_pos == kcov_size * word_size
    IN  IF end_pos <= max_pos
        THEN Store(Store(Store(Store(Store(w, start_index + 1, type),
                 start_index + 2, arg1), start_index + 3, arg2),
                 start_index + 4, ip), 1, count + 1)
        ELSE w

write_comp_words(w, kcov_size, type, arg1, arg2, ip) ==
    LET count == w[1]
        start_index == 1 + count * KCOV_WORDS_PER_CMP
        end_pos == (start_index + KCOV_WORDS_PER_CMP) * word_size
        max_pos == kcov_size * word_size
    IN  IF end_pos <= max_pos
        THEN Store(Store(Store(Store(Store(w, start_index + 1, type),
                 start_index + 2, arg1), start_index + 3, arg2),
                 start_index + 4, ip), 1, count + 1)
        ELSE w

write_comp_data(t, type, arg1, arg2, ip, in_task) ==
    LET a == task[t].kcov_area IN
    /\ pc[t] # "dead"
    /\ IF ~check_kcov_mode("TRACE_CMP", task[t], in_task)
       THEN UNCHANGED <<mem, uaf>>
       ELSE /\ a # NULL
            /\ mem' = [mem EXCEPT ![a].w =
                          write_comp_words(mem[a].w, task[t].kcov_size,
                                           type, arg1, arg2, ip)]
            /\ uaf' = (uaf \/ mem[a].st = "freed")
    /\ log' = IF obs.log /\ in_task /\ task[t].kcov_mode = "TRACE_CMP"
              THEN Append(log, <<type, arg1, arg2, ip>>) ELSE log
    /\ Ret(t, NULL, "trace_cmp", IF in_task THEN "task" ELSE "irq")
    /\ UNCHANGED <<kcov, kstate, file, klock, task, pc, loc, kcov_remote_map,
                   kcov_remote_areas, kcov_remote_lock, win, nfree, obs>>

\* ------------------------------------------------------------ the merge
\* kcov_move_area on the words of the two buffers: the words of dst afterwards.
\* memcpy moves bytes_to_move / word_size whole words (every size involved is a
\* multiple of word_size).
\* memcpy of n words from word s0 of src to word d0 of dst.  A read past the
\* end of src yields whatever lies there (0 here).
RECURSIVE memcpy_words(_, _, _, _, _)
memcpy_words(dst, d0, src, s0, n) ==
    IF n = 0 THEN dst
    ELSE memcpy_words(Store(dst, d0 + 1, IF s0 + 1 <= Len(src) THEN src[s0 + 1] ELSE 0),
                      d0 + 1, src, s0 + 1, n - 1)

kcov_move_area_nocap(mode, dst, dst_area_size, src) ==
    LET entry_size == IF mode = "TRACE_PC" THEN word_size
                      ELSE word_size * KCOV_WORDS_PER_CMP
        dst_occupied == word_size + dst[1] * entry_size
        bytes_to_move == src[1] * entry_size
    IN  Store(memcpy_words(dst, dst_occupied \div word_size, src, 1,
                           bytes_to_move \div word_size),
              1, dst[1] + src[1])

kcov_move_area(mode, dst, dst_area_size, src) ==
    IF mode \notin {"TRACE_PC", "TRACE_CMP"} THEN dst
    ELSE
    LET dst_len == dst[1]
        src_len == src[1]
        count_size == word_size
        entry_size == IF mode = "TRACE_PC" THEN word_size
                      ELSE word_size * KCOV_WORDS_PER_CMP
    IN  IF dst_len > (dst_area_size * word_size - count_size) \div entry_size
        THEN dst
        ELSE
        LET dst_occupied == count_size + dst_len * entry_size
            dst_free == dst_area_size * word_size - dst_occupied
            bytes_to_move == Min(dst_free, src_len * entry_size)
            entries_moved == bytes_to_move \div entry_size
        IN  Store(memcpy_words(dst, dst_occupied \div word_size,
                               src, count_size \div word_size,
                               bytes_to_move \div word_size),
                  1, dst_len + entries_moved)

\* The bytes kcov_move_area copies (its bytes_to_move), 0 where it returns
\* before the memcpy.
kcov_move_bytes(mode, dst, dst_area_size, src) ==
    IF mode \notin {"TRACE_PC", "TRACE_CMP"} THEN 0
    ELSE
    LET dst_len == dst[1]
        src_len == src[1]
        count_size == word_size
        entry_size == IF mode = "TRACE_PC" THEN word_size
                      ELSE word_size * KCOV_WORDS_PER_CMP
    IN  IF dst_len > (dst_area_size * word_size - count_size) \div entry_size
        THEN 0
        ELSE Min(dst_area_size * word_size - (count_size + dst_len * entry_size),
                 src_len * entry_size)

\* ------------------------------------------------- the remote window
\* kcov_remote_area_get: position in the free-list of the first area whose
\* recorded size is `size`, or 0.
kcov_remote_area_get(list, size) ==
    IF \E i \in 1..Len(list) : mem[list[i]].hsize = size
    THEN CHOOSE i \in 1..Len(list) :
            /\ mem[list[i]].hsize = size
            /\ \A j \in 1..(i - 1) : mem[list[j]].hsize # size
    ELSE 0

RemoveAt(list, i) == SubSeq(list, 1, i - 1) \o SubSeq(list, i + 1, Len(list))

\* struct kcov_remote_area {list.next, list.prev, size} lies over the first
\* words of the buffer; LIST_PTR stands for a pointer value.
LIST_PTR == 0 - 1

AreaHeader(w, size) ==
    [i \in 1..Len(w) |-> IF i <= 2 THEN LIST_PTR ELSE IF i = 3 THEN size ELSE w[i]]

\* kcov_remote_start up to the spin_unlock(&kcov_remote_lock) after the lookup.
kcov_remote_start(t, handle, in_task) ==
    LET i == kcov_remote_find(kcov_remote_map, handle)
        k == kcov_remote_map[i].kcov
    IN
    /\ pc[t] = "idle"
    /\ Ret(t, NULL, "remote_start", IF in_task THEN "task" ELSE "irq")
    /\ IF ~in_task \/ task[t].kcov # NULL
       THEN UNCHANGED <<kcov, task, pc, loc, win, uaf>>
       ELSE /\ kcov_remote_lock = NULL
            /\ IF i = 0
               THEN UNCHANGED <<kcov, task, pc, loc, win, uaf>>
               ELSE /\ kcov' = [kcov EXCEPT ![k] = kcov_get(kcov[k])]
                    /\ task' = [task EXCEPT ![t].kcov = k]
                    /\ pc' = [pc EXCEPT ![t] = "rs_area"]
                    /\ loc' = [loc EXCEPT ![t] =
                                  [NoLoc EXCEPT !.kcov = k,
                                                !.size = kcov[k].remote_size,
                                                !.mode = kcov[k].mode,
                                                !.sequence = kcov[k].sequence]]
                    /\ win' = [win EXCEPT ![t] = [NoWin EXCEPT !.kcov = k]]
                    /\ uaf' = (uaf \/ Touch(k))
    /\ UNCHANGED <<kstate, file, klock, kcov_remote_map, kcov_remote_areas,
                   kcov_remote_lock, mem, nfree, log, obs>>

\* kcov_remote_start from kcov_remote_area_get on; the free-list is walked with
\* no lock held.  vmalloc fails when told to, for a zero size and when no
\* buffer is left.
kcov_remote_start_area(t, fail) ==
    LET size == loc[t].size
        i == kcov_remote_area_get(kcov_remote_areas, size)
        fresh == {b \in ScratchIds : mem[b].st = "none"}
        walked == IF i = 0 THEN 1..Len(kcov_remote_areas) ELSE 1..i
        seen == \E j \in walked : mem[kcov_remote_areas[j]].st = "freed"
    IN
    /\ pc[t] = "rs_area"
    /\ IF i = 0 /\ (fail \/ size = 0 \/ fresh = {})
       THEN /\ pc' = [pc EXCEPT ![t] = "put"]
            /\ loc' = [loc EXCEPT ![t] = [NoLoc EXCEPT !.kcov = loc[t].kcov]]
            /\ uaf' = (uaf \/ seen \/ loc[t].stale)
            /\ UNCHANGED <<task, mem, kcov_remote_areas, win>>
       ELSE
       LET a == IF i # 0 THEN kcov_remote_areas[i]
                ELSE CHOOSE b \in fresh : \A c \in fresh : b <= c
           w0 == IF i # 0 THEN mem[a].w ELSE Zeros(size)
       IN  /\ kcov_remote_areas' = IF i # 0 THEN RemoveAt(kcov_remote_areas, i)
                                   ELSE kcov_remote_areas
           /\ mem' = [mem EXCEPT ![a] = [st |-> IF i # 0 THEN mem[a].st ELSE "live",
                                         w |-> [w0 EXCEPT ![1] = 0],
                                         hsize |-> mem[a].hsize]]
           /\ task' = [task EXCEPT ![t] =
                          kcov_start(task[t], size, a, loc[t].mode, loc[t].sequence)]
           /\ win' = [win EXCEPT ![t].started = TRUE]
           /\ uaf' = (uaf \/ seen)
           /\ pc' = [pc EXCEPT ![t] = "idle"]
           /\ loc' = [loc EXCEPT ![t] = NoLoc]
    /\ UNCHANGED <<kcov, kstate, file, klock, kcov_remote_map, kcov_remote_lock,
                   last, nfree, log, obs>>

\* kcov_remote_stop up to the spin_unlock(&kcov->lock) after the merge.
kcov_remote_stop(t) ==
    LET k == task[t].kcov
        area == task[t].kcov_area
        size == task[t].kcov_size
        sequence == task[t].kcov_sequence
    IN
    /\ pc[t] = "idle"
    /\ Ret(t, NULL, "remote_stop", "task")
    /\ IF k = NULL
       THEN UNCHANGED <<task, pc, loc, klock, mem, uaf>>
       ELSE
       /\ klock[k] = NULL
       /\ task' = [task EXCEPT ![t] = [kcov_stop(task[t]) EXCEPT !.kcov = NULL]]
       /\ IF sequence = kcov[k].sequence /\ kcov[k].remote
          THEN IF area = NULL \/ kcov[k].area = NULL
               THEN \* kcov_move_area reads through a NULL pointer under kcov->lock
                    /\ pc' = [pc EXCEPT ![t] = "oops"]
                    /\ klock' = [klock EXCEPT ![k] = t]
                    /\ loc' = [loc EXCEPT ![t] = [NoLoc EXCEPT !.kcov = k]]
                    /\ uaf' = (uaf \/ Touch(k))
                    /\ UNCHANGED mem
               ELSE /\ mem' = [mem EXCEPT ![kcov[k].area].w =
                                 kcov_move_area(kcov[k].mode, mem[kcov[k].area].w,
                                                kcov[k].size, mem[area].w)]
                    /\ uaf' = (uaf \/ Touch(k) \/ mem[kcov[k].area].st = "freed"
                                   \/ mem[area].st = "freed")
                    /\ pc' = [pc EXCEPT ![t] = "rp_area"]
                    /\ loc' = [loc EXCEPT ![t] = [NoLoc EXCEPT !.kcov = k,
                                                  !.area = area, !.size = size]]
                    /\ UNCHANGED klock
          ELSE /\ pc' = [pc EXCEPT ![t] = "rp_area"]
               /\ loc' = [loc EXCEPT ![t] = [NoLoc EXCEPT !.kcov = k,
                                             !.area = area, !.size = size]]
               /\ uaf' = (uaf \/ Touch(k))
               /\ UNCHANGED <<klock, mem>>
    /\ UNCHANGED <<kcov, kstate, file, kcov_remote_map, kcov_remote_areas,
                   kcov_remote_lock, win, nfree, log, obs>>

\* kcov_remote_stop: kcov_remote_area_put under kcov_remote_lock; the kcov_put
\* that follows is the step kcov_put.
kcov_remote_stop_area(t) ==
    LET a == loc[t].area IN
    /\ pc[t] = "rp_area"
    /\ kcov_remote_lock = NULL
    /\ IF a = NULL
       THEN \* INIT_LIST_HEAD(&area->list) writes through a NULL pointer
            /\ pc' = [pc EXCEPT ![t] = "oops"]
            /\ kcov_remote_lock' = t
            /\ UNCHANGED <<kcov_remote_areas, mem, loc, uaf>>
       ELSE /\ kcov_remote_areas' = <<a>> \o kcov_remote_areas
            /\ mem' = [mem EXCEPT ![a].hsize = loc[t].size,
                                  ![a].w = AreaHeader(mem[a].w, loc[t].size)]
            /\ uaf' = (uaf \/ mem[a].st = "freed")
            /\ pc' = [pc EXCEPT ![t] = "put"]
            /\ loc' = [loc EXCEPT ![t] = [NoLoc EXCEPT !.kcov = loc[t].kcov]]
            /\ UNCHANGED kcov_remote_lock
    /\ UNCHANGED <<kcov, kstate, file, klock, task, kcov_remote_map, last, win,
                   nfree, log, obs>>

\* ------------------------------------------------------------- inputs
RemoteArgs(modes, sizes, lists, unused) ==
    [trace_mode : modes, area_size : sizes, handles : lists, unused : unused]

\* ------------------------------------------------- Spec: the interleavings
\* Two tasks on one descriptor, PC mode, one handle: every interleaving of the
\* steps of open, INIT_TRACE, mmap, ENABLE, REMOTE_ENABLE, DISABLE, close,
\* kcov_remote_start, kcov_remote_stop, kcov_task_exit and the PC sink.
Next ==
    \E t \in Tasks, k \in {1} :
        \/ kcov_open(t, k)
        \/ KCOV_INIT_TRACE(t, k, 2)
        \/ kcov_mmap(t, k, 0, 2 * word_size, FALSE)
        \/ /\ kcov[k].sequence < MaxSeq
           /\ KCOV_ENABLE(t, k, 0)
        \/ /\ kcov[k].sequence < MaxSeq
           /\ \E ra \in RemoteArgs({0}, {0, 2}, {<<1>>, <<1, 1>>}, {0}) :
                 KCOV_REMOTE_ENABLE(t, k, ra, 0)
        \/ KCOV_REMOTE_ENABLE_fail(t)
        \/ KCOV_DISABLE(t, k, 0)
        \/ kcov_close(t, k)
        \/ kcov_put(t)
        \/ kcov_put_free(t)
        \/ kcov_task_exit(t)
        \/ kcov_remote_start(t, 1, TRUE)
        \/ \E fail \in BOOLEAN : kcov_remote_start_area(t, fail)
        \/ kcov_remote_stop(t)
        \/ kcov_remote_stop_area(t)
        \/ sanitizer_cov_trace_pc(t, 7, TRUE)

Spec == Init /\ [][Next]_vars

\* --------------------------------------------- SpecPC: the PC sink alone
\* One task takes a descriptor of size 2..MaxSize+1 to TRACE_PC and calls the
\* sink up to MaxCalls times, in and out of task context; log records the calls
\* made in task context while the task's mode is TRACE_PC.
PCs == {11, 12}

InitPC == InitWith([last |-> FALSE, log |-> TRUE])

NextPC ==
    \E t \in {1}, k \in {1} :
        \/ kcov_open(t, k)
        \/ \E n \in 2..(MaxSize + 1) : KCOV_INIT_TRACE(t, k, n)
        \/ \E n \in 2..(MaxSize + 1) : kcov_mmap(t, k, 0, n * word_size, FALSE)
        \/ KCOV_ENABLE(t, k, 0)
        \/ /\ Len(log) < MaxCalls
           /\ \E ip \in PCs, in_task \in BOOLEAN : sanitizer_cov_trace_pc(t, ip, in_task)

SpecPC == InitPC /\ [][NextPC]_vars

\* ------------------------------------------- SpecCMP: the CMP sink alone
CmpCalls == {<<0, 1, 2, 11>>, <<7, 3, 4, 12>>}

NextCMP ==
    \E t \in {1}, k \in {1} :
        \/ kcov_open(t, k)
        \/ \E n \in 2..MaxWords : KCOV_INIT_TRACE(t, k, n)
        \/ \E n \in 2..MaxWords : kcov_mmap(t, k, 0, n * word_size, FALSE)
        \/ KCOV_ENABLE(t, k, 1)
        \/ /\ Len(log) < MaxCalls - 2
           /\ \E c \in CmpCalls, in_task \in BOOLEAN :
                 write_comp_data(t, c[1], c[2], c[3], c[4], in_task)

SpecCMP == InitPC /\ [][NextCMP]_vars

\* ------------------------------------------------ SpecMerge: the merge
\* Task 1 remote-enables a descriptor in either mode; task 2 opens windows on
\* it one after the other, records into its scratch buffer and stops.
NextMerge ==
    \/ kcov_open(1, 1)
    \/ \E n \in {2, 3, 5, MaxWords} : KCOV_INIT_TRACE(1, 1, n)
    \/ \E n \in {2, 3, 5, MaxWords} : kcov_mmap(1, 1, 0, n * word_size, FALSE)
    \/ \E ra \in RemoteArgs({0, 1}, {3, MaxWords}, {<<1>>}, {0}) :
          \* PC mode on the small buffers, CMP mode on those that hold a record
          /\ ra.trace_mode = 0 <=> kcov[1].size <= 3
          /\ ra.trace_mode = 0 <=> ra.area_size = 3
          /\ KCOV_REMOTE_ENABLE(1, 1, ra, 0)
    \/ kcov_remote_start(2, 1, TRUE)
    \/ kcov_remote_start_area(2, FALSE)
    \/ \E ip \in PCs : sanitizer_cov_trace_pc(2, ip, TRUE)
    \/ \E c \in CmpCalls : write_comp_data(2, c[1], c[2], c[3], c[4], TRUE)
    \/ kcov_remote_stop(2)
    \/ kcov_remote_stop_area(2)
    \/ kcov_put(2)

SpecMerge == Init /\ [][NextMerge]_vars

\* ------------------------------------- SpecUser: the merge and userspace
\* The buffer of a descriptor is mapped into the process that called mmap,
\* which can store any value to any of its words at any time; here it stores
\* to the count word.
UserCounts == {0, 1, 2, INT_MAX}

user_write(k, v) ==
    /\ kstate[k] = "live"
    /\ kcov[k].area # NULL
    /\ mem' = [mem EXCEPT ![kcov[k].area].w[1] = v]
    /\ Ret(NULL, k, "user_write", "OK")
    /\ UNCHANGED <<kcov, kstate, file, klock, task, pc, loc, kcov_remote_map,
                   kcov_remote_areas, kcov_remote_lock, win, uaf, nfree, log, obs>>

NextUser ==
    \/ NextMerge
    \/ \E v \in UserCounts : user_write(1, v)

\* ------------------------------------------- SpecCtl: the control requests
\* Two tasks and two descriptors; every request with legal and illegal
\* arguments in every state, kcov_remote_start in and out of task context, the
\* sinks in and out of task context; last records each request's result.
CtlSizes == {1, 2, INT_MAX \div word_size + 1}

\* KCOV_REMOTE_ENABLE calls: the argument and the kmalloc that fails (0: none).
CtlCalls ==
    [ra : RemoteArgs({0}, {2}, {<<1>>, <<2>>, <<1, 1>>, <<1, 2>>}, {0}),
     failAt : {0}]
    \cup [ra : RemoteArgs({0}, {2}, {<<1, 2>>}, {0}), failAt : {1, 2}]
    \cup [ra : RemoteArgs({2}, {2}, {<<1>>}, {0}), failAt : {0}]
    \cup [ra : RemoteArgs({0}, {2}, {<<1>>}, {1}), failAt : {0}]

InitCtl == InitWith([last |-> TRUE, log |-> FALSE])

NextCtl ==
    \E t \in Tasks, k \in Kcovs :
        \/ kcov_open(t, k)
        \/ \E n \in CtlSizes : KCOV_INIT_TRACE(t, k, n)
        \/ \E pgoff \in {0, 1}, n \in {2, 3}, nomem \in BOOLEAN :
              kcov_mmap(t, k, pgoff, n * word_size, nomem)
        \/ /\ kcov[k].sequence < MaxSeq
           /\ \E arg \in 0..2 : KCOV_ENABLE(t, k, arg)
        \/ /\ kcov[k].sequence < MaxSeq
           /\ \E c \in CtlCalls : KCOV_REMOTE_ENABLE(t, k, c.ra, c.failAt)
        \/ KCOV_REMOTE_ENABLE_fail(t)
        \/ \E arg \in {0, 1} : KCOV_DISABLE(t, k, arg)
        \/ kcov_ioctl_unknown(t, k)

SpecCtl == InitCtl /\ [][NextCtl]_vars

\* ------------------------------------------- SpecNoop: the calls that return
\* Two tasks on one descriptor, enabled in either mode or remote-enabled with
\* handle 1; kcov_remote_start with a registered and an unregistered handle and
\* both sinks, each in and out of task context, in every state.
NextNoop ==
    \E t \in Tasks, k \in {1} :
        \/ kcov_open(t, k)
        \/ KCOV_INIT_TRACE(t, k, 2)
        \/ kcov_mmap(t, k, 0, 2 * word_size, FALSE)
        \/ /\ kcov[k].sequence < MaxSeq
           /\ \E arg \in {0, 1} : KCOV_ENABLE(t, k, arg)
        \/ /\ kcov[k].sequence < MaxSeq
           /\ \E ra \in RemoteArgs({0}, {2}, {<<1>>}, {0}) :
                 KCOV_REMOTE_ENABLE(t, k, ra, 0)
        \/ KCOV_DISABLE(t, k, 0)
        \/ \E h \in Handles, in_task \in BOOLEAN : kcov_remote_start(t, h, in_task)
        \/ kcov_remote_start_area(t, FALSE)
        \/ kcov_remote_stop(t)
        \/ kcov_remote_stop_area(t)
        \/ kcov_put(t)
        \/ \E in_task \in BOOLEAN : sanitizer_cov_trace_pc(t, 11, in_task)
        \/ \E in_task \in BOOLEAN : write_comp_data(t, 0, 1, 2, 11, in_task)

SpecNoop == InitCtl /\ [][NextNoop]_vars

\* ------------------------------------------------ SpecLife
\* The interleavings of Spec with the result of each request recorded in last.
SpecLife == InitCtl /\ [][Next]_vars

\* The merge with userspace storing to the count word, the most recent call
\* recorded in last.
SpecUser == InitCtl /\ [][NextUser]_vars

\* ------------------------------------------- SpecLock: the lock operations
\* Each function as the sequence of spin_lock / spin_unlock calls it makes and
\* of its accesses to the handle table and to the free-list, one of them a
\* step.  The branches that decide which of them are made (the descriptor is
\* remote, the reference put is the last one, an allocation fails, the handle
\* is found) are the arguments; loc.todo is what the function a task is
\* inside has still to do.
Critical(lock, inner) ==
    <<[op |-> "spin_lock", obj |-> lock]>> \o inner
        \o <<[op |-> "spin_unlock", obj |-> lock]>>

\* hash_add, hash_del, kcov_remote_find on kcov_remote_map; list_del, list_add
\* and the list walk on kcov_remote_areas.
Access(obj) == <<[op |-> "access", obj |-> obj]>>

kcov_remote_reset_locks == Critical("kcov_remote_lock", Access("kcov_remote_map"))

kcov_put_locks(zero) == IF zero THEN kcov_remote_reset_locks ELSE <<>>

\* if (kcov->remote) kcov_remote_reset(kcov); else kcov_reset(kcov);
kcov_disable_locks(remote) == IF remote THEN kcov_remote_reset_locks ELSE <<>>

kcov_task_exit_locks(owner, remote, zero) ==
    IF owner THEN Critical("kcov->lock", kcov_disable_locks(remote)) \o kcov_put_locks(zero)
    ELSE Critical("kcov->lock", <<>>)

kcov_mmap_locks == Critical("kcov->lock", <<>>)

kcov_ioctl_locks(cmd, remote, zero, fail) ==
    Critical("kcov->lock",
             IF cmd = "DISABLE" THEN kcov_disable_locks(remote) \o kcov_put_locks(zero)
             ELSE IF cmd = "REMOTE_ENABLE"
             THEN Critical("kcov_remote_lock", Access("kcov_remote_map"))
                  \o (IF fail THEN kcov_remote_reset_locks ELSE <<>>)
             ELSE <<>>)

kcov_close_locks(zero) == kcov_put_locks(zero)

kcov_remote_start_locks_nested(found, fail, zero) ==
    Critical("kcov_remote_lock",
             Access("kcov_remote_map") \o Critical("kcov->lock", <<>>))

kcov_remote_start_locks(found, fail, zero) ==
    Critical("kcov_remote_lock", Access("kcov_remote_map"))
        \o (IF found THEN Access("kcov_remote_areas") ELSE <<>>)
        \o (IF found /\ fail THEN kcov_put_locks(zero) ELSE <<>>)

kcov_remote_stop_locks(zero) ==
    Critical("kcov->lock", <<>>)
        \o Critical("kcov_remote_lock", Access("kcov_remote_areas"))
        \o kcov_put_locks(zero)

\* Task t enters a function that works on descriptor k.
LockCall(t, k, ops) ==
    /\ pc[t] = "idle"
    /\ ops # <<>>
    /\ pc' = [pc EXCEPT ![t] = "in_call"]
    /\ loc' = [loc EXCEPT ![t] = [NoLoc EXCEPT !.kcov = k, !.todo = ops]]
    /\ UNCHANGED <<kcov, kstate, file, klock, task, kcov_remote_map,
                   kcov_remote_areas, kcov_remote_lock, mem, last, win, uaf, nfree,
                   log, obs>>

\* Task t is inside a function and about to do `op`.
AtOp(t, op) == pc[t] = "in_call" /\ Head(loc[t].todo).op = op

\* The holder of the lock the next call of task t is about, or NULL.
Holder(t) ==
    IF Head(loc[t].todo).obj = "kcov->lock" THEN klock[loc[t].kcov]
    ELSE kcov_remote_lock

\* Task t has done its next operation; after the last one the function returns.
Done(t) ==
    IF Tail(loc[t].todo) = <<>>
    THEN /\ pc' = [pc EXCEPT ![t] = "idle"]
         /\ loc' = [loc EXCEPT ![t] = NoLoc]
    ELSE /\ loc' = [loc EXCEPT ![t].todo = Tail(loc[t].todo)]
         /\ UNCHANGED pc

spin_lock(t) ==
    /\ AtOp(t, "spin_lock")
    /\ Holder(t) = NULL
    /\ IF Head(loc[t].todo).obj = "kcov->lock"
       THEN klock' = [klock EXCEPT ![loc[t].kcov] = t] /\ UNCHANGED kcov_remote_lock
       ELSE kcov_remote_lock' = t /\ UNCHANGED klock
    /\ Done(t)
    /\ UNCHANGED <<kcov, kstate, file, task, kcov_remote_map, kcov_remote_areas,
                   mem, last, win, uaf, nfree, log, obs>>

spin_unlock(t) ==
    /\ AtOp(t, "spin_unlock")
    /\ IF Head(loc[t].todo).obj = "kcov->lock"
       THEN klock' = [klock EXCEPT ![loc[t].kcov] = NULL] /\ UNCHANGED kcov_remote_lock
       ELSE kcov_remote_lock' = NULL /\ UNCHANGED klock
    /\ Done(t)
    /\ UNCHANGED <<kcov, kstate, file, task, kcov_remote_map, kcov_remote_areas,
                   mem, last, win, uaf, nfree, log, obs>>

\* The access itself; what it reads and writes is the business of the other
\* specifications.
access(t) ==
    /\ AtOp(t, "access")
    /\ Done(t)
    /\ UNCHANGED <<kcov, kstate, file, klock, task, kcov_remote_map,
                   kcov_remote_areas, kcov_remote_lock, mem, last, win, uaf, nfree,
                   log, obs>>

NextLock ==
    \E t \in Tasks, k \in Kcovs :
        \/ \E cmd \in {"ENABLE", "DISABLE", "REMOTE_ENABLE"},
              remote \in BOOLEAN, zero \in BOOLEAN, fail \in BOOLEAN :
              LockCall(t, k, kcov_ioctl_locks(cmd, remote, zero, fail))
        \/ LockCall(t, k, kcov_mmap_locks)
        \/ \E zero \in BOOLEAN : LockCall(t, k, kcov_close_locks(zero))
        \/ \E owner \in BOOLEAN, remote \in BOOLEAN, zero \in BOOLEAN :
              LockCall(t, k, kcov_task_exit_locks(owner, remote, zero))
        \/ \E found \in BOOLEAN, fail \in BOOLEAN, zero \in BOOLEAN :
              LockCall(t, k, kcov_remote_start_locks(found, fail, zero))
        \/ \E zero \in BOOLEAN : LockCall(t, k, kcov_remote_stop_locks(zero))
        \/ spin_lock(t)
        \/ spin_unlock(t)
        \/ access(t)

SpecLock == Init /\ [][NextLock]_vars

\* ------------------------------------------- SpecPub: the stores one by one
\* kcov_start and kcov_stop as the sequences of stores to task_struct they
\* make, in program order (both have a barrier() between the mode and the
\* rest, so the compiler keeps that order), one store a step; loc.todo holds
\* the stores the task has still to make.  The sinks run on a task between any
\* two of its stores.
St(field, value) == [field |-> field, value |-> value]

kcov_start_stores_mode_first(size, area, mode, sequence) ==
    <<St("kcov_mode", mode), St("kcov_size", size), St("kcov_area", area),
      St("kcov_sequence", sequence)>>

kcov_start_stores(size, area, mode, sequence) ==
    <<St("kcov_size", size), St("kcov_area", area), St("kcov_mode", mode),
      St("kcov_sequence", sequence)>>

kcov_stop_stores ==
    <<St("kcov_mode", "DISABLED"), St("kcov_size", 0), St("kcov_area", NULL)>>

kcov_task_init_stores ==
    kcov_stop_stores \o <<St("kcov", NULL), St("kcov_sequence", 0)>>

\* One store of the function task t is inside; after the last one the
\* function goes on at loc.after.
store(t) ==
    LET s == Head(loc[t].todo) IN
    /\ pc[t] = "stores"
    /\ task' = [task EXCEPT ![t] = [task[t] EXCEPT ![s.field] = s.value]]
    /\ loc' = [loc EXCEPT ![t].todo = Tail(loc[t].todo)]
    /\ pc' = IF Tail(loc[t].todo) = <<>> THEN [pc EXCEPT ![t] = loc[t].after] ELSE pc
    /\ UNCHANGED <<kcov, kstate, file, klock, kcov_remote_map, kcov_remote_areas,
                   kcov_remote_lock, mem, last, win, uaf, nfree, log, obs>>

\* KCOV_ENABLE, the successful path, up to the call of kcov_start.
KCOV_ENABLE_begin(t, k, arg) ==
    /\ FileOp(t, k)
    /\ enable_check(kcov[k], task[t], arg) \notin {"EINVAL", "EBUSY"}
    /\ klock' = [klock EXCEPT ![k] = t]
    /\ kcov' = [kcov EXCEPT ![k].mode = kcov_get_mode(arg)]
    /\ pc' = [pc EXCEPT ![t] = "stores"]
    /\ loc' = [loc EXCEPT ![t] =
                  [NoLoc EXCEPT !.kcov = k, !.after = "enable_end",
                                !.todo = kcov_start_stores(kcov[k].size, kcov[k].area,
                                                           kcov_get_mode(arg),
                                                           kcov[k].sequence)]]
    /\ uaf' = (uaf \/ Touch(k))
    /\ UNCHANGED <<kstate, file, task, kcov_remote_map, kcov_remote_areas,
                   kcov_remote_lock, mem, last, win, nfree, log, obs>>

\* KCOV_ENABLE after kcov_start: t->kcov, kcov->t, kcov_get, unlock.
KCOV_ENABLE_end(t) ==
    LET k == loc[t].kcov IN
    /\ pc[t] = "enable_end"
    /\ task' = [task EXCEPT ![t].kcov = k]
    /\ kcov' = [kcov EXCEPT ![k] = kcov_get([kcov[k] EXCEPT !.t = t])]
    /\ klock' = [klock EXCEPT ![k] = NULL]
    /\ pc' = [pc EXCEPT ![t] = "idle"]
    /\ loc' = [loc EXCEPT ![t] = NoLoc]
    /\ Ret(t, k, "ENABLE", "OK")
    /\ UNCHANGED <<kstate, file, kcov_remote_map, kcov_remote_areas,
                   kcov_remote_lock, mem, win, uaf, nfree, log, obs>>

\* KCOV_DISABLE, the successful path, up to the call of kcov_task_init.
KCOV_DISABLE_begin(t, k) ==
    /\ FileOp(t, k)
    /\ task[t].kcov = k
    /\ kcov[k].t = t
    /\ klock' = [klock EXCEPT ![k] = t]
    /\ pc' = [pc EXCEPT ![t] = "stores"]
    /\ loc' = [loc EXCEPT ![t] = [NoLoc EXCEPT !.kcov = k, !.after = "disable_end",
                                              !.todo = kcov_task_init_stores]]
    /\ uaf' = (uaf \/ Touch(k))
    /\ UNCHANGED <<kcov, kstate, file, task, kcov_remote_map, kcov_remote_areas,
                   kcov_remote_lock, mem, last, win, nfree, log, obs>>

\* KCOV_DISABLE after kcov_task_init: the reset, kcov_put, unlock.
KCOV_DISABLE_end(t) ==
    LET k == loc[t].kcov
        kc == kcov_reset(kcov[k])
        zero == kc.refcount - 1 = 0
    IN
    /\ pc[t] = "disable_end"
    /\ kcov' = [kcov EXCEPT ![k] = [kc EXCEPT !.refcount = kc.refcount - 1]]
    /\ win' = WinDisabled(k)
    /\ IF kcov[k].remote
       THEN /\ kcov_remote_lock = NULL
            /\ kcov_remote_map' = Purge(kcov_remote_map, k)
       ELSE UNCHANGED kcov_remote_map
    /\ IF zero
       THEN /\ pc' = [pc EXCEPT ![t] = "put_free"]
            /\ loc' = [IF kcov[k].remote THEN StaleLocs(k) ELSE loc
                       EXCEPT ![t] = [NoLoc EXCEPT !.kcov = k, !.unlock = TRUE]]
            /\ UNCHANGED <<klock, last>>
       ELSE /\ pc' = [pc EXCEPT ![t] = "idle"]
            /\ loc' = [IF kcov[k].remote THEN StaleLocs(k) ELSE loc
                       EXCEPT ![t] = NoLoc]
            /\ klock' = [klock EXCEPT ![k] = NULL]
            /\ Ret(t, k, "DISABLE", "OK")
    /\ UNCHANGED <<kstate, file, task, kcov_remote_areas, kcov_remote_lock, mem,
                   uaf, nfree, log, obs>>

\* kcov_task_exit of the owner, up to the call of kcov_task_init.
kcov_task_exit_begin(t) ==
    LET k == task[t].kcov IN
    /\ pc[t] = "idle"
    /\ k # NULL
    /\ klock[k] = NULL
    /\ kcov[k].t = t
    /\ klock' = [klock EXCEPT ![k] = t]
    /\ pc' = [pc EXCEPT ![t] = "stores"]
    /\ loc' = [loc EXCEPT ![t] = [NoLoc EXCEPT !.kcov = k, !.after = "exit_end",
                                              !.todo = kcov_task_init_stores]]
    /\ uaf' = (uaf \/ Touch(k))
    /\ UNCHANGED <<kcov, kstate, file, task, kcov_remote_map, kcov_remote_areas,
                   kcov_remote_lock, mem, last, win, nfree, log, obs>>

\* kcov_task_exit after kcov_task_init: the reset and the unlock; kcov_put is
\* the step that follows.
kcov_task_exit_end(t) ==
    LET k == loc[t].kcov IN
    /\ pc[t] = "exit_end"
    /\ kcov' = [kcov EXCEPT ![k] = kcov_reset(kcov[k])]
    /\ win' = WinExited(k)
    /\ IF kcov[k].remote
       THEN /\ kcov_remote_lock = NULL
            /\ kcov_remote_map' = Purge(kcov_remote_map, k)
       ELSE UNCHANGED kcov_remote_map
    /\ klock' = [klock EXCEPT ![k] = NULL]
    /\ pc' = [pc EXCEPT ![t] = "put"]
    /\ loc' = [IF kcov[k].remote THEN StaleLocs(k) ELSE loc
               EXCEPT ![t] = [NoLoc EXCEPT !.kcov = k, !.after = "dead"]]
    /\ UNCHANGED <<kstate, file, task, kcov_remote_areas, kcov_remote_lock, mem,
                   last, uaf, nfree, log, obs>>

\* kcov_remote_start from kcov_remote_area_get up to the call of kcov_start.
kcov_remote_start_area_begin(t, fail) ==
    LET size == loc[t].size
        i == kcov_remote_area_get(kcov_remote_areas, size)
        fresh == {b \in ScratchIds : mem[b].st = "none"}
        walked == IF i = 0 THEN 1..Len(kcov_remote_areas) ELSE 1..i
        seen == \E j \in walked : mem[kcov_remote_areas[j]].st = "freed"
    IN
    /\ pc[t] = "rs_area"
    /\ IF i = 0 /\ (fail \/ size = 0 \/ fresh = {})
       THEN /\ pc' = [pc EXCEPT ![t] = "put"]
            /\ loc' = [loc EXCEPT ![t] = [NoLoc EXCEPT !.kcov = loc[t].kcov]]
            /\ uaf' = (uaf \/ seen \/ loc[t].stale)
            /\ UNCHANGED <<mem, kcov_remote_areas, win>>
       ELSE
       LET a == IF i # 0 THEN kcov_remote_areas[i]
                ELSE CHOOSE b \in fresh : \A c \in fresh : b <= c
           w0 == IF i # 0 THEN mem[a].w ELSE Zeros(size)
       IN  /\ kcov_remote_areas' = IF i # 0 THEN RemoveAt(kcov_remote_areas, i)
                                   ELSE kcov_remote_areas
           /\ mem' = [mem EXCEPT ![a] = [st |-> IF i # 0 THEN mem[a].st ELSE "live",
                                         w |-> [w0 EXCEPT ![1] = 0],
                                         hsize |-> mem[a].hsize]]
           /\ win' = [win EXCEPT ![t].started = TRUE]
           /\ uaf' = (uaf \/ seen)
           /\ pc' = [pc EXCEPT ![t] = "stores"]
           /\ loc' = [loc EXCEPT ![t] =
                         [NoLoc EXCEPT !.after = "idle",
                                       !.todo = kcov_start_stores(size, a, loc[t].mode,
                                                                  loc[t].sequence)]]
    /\ UNCHANGED <<kcov, kstate, file, klock, task, kcov_remote_map,
                   kcov_remote_lock, last, nfree, log, obs>>

\* kcov_remote_stop up to the spin_lock: the locals are read, then kcov_stop
\* and t->kcov = NULL.
kcov_remote_stop_begin(t) ==
    /\ pc[t] = "idle"
    /\ task[t].kcov # NULL
    /\ pc' = [pc EXCEPT ![t] = "stores"]
    /\ loc' = [loc EXCEPT ![t] =
                  [NoLoc EXCEPT !.kcov = task[t].kcov, !.area = task[t].kcov_area,
                                !.size = task[t].kcov_size,
                                !.sequence = task[t].kcov_sequence,
                                !.after = "stop_merge",
                                !.todo = kcov_stop_stores \o <<St("kcov", NULL)>>]]
    /\ Ret(t, NULL, "remote_stop", "task")
    /\ UNCHANGED <<kcov, kstate, file, klock, task, kcov_remote_map,
                   kcov_remote_areas, kcov_remote_lock, mem, win, uaf, nfree, log, obs>>

\* kcov_remote_stop, the critical section under kcov->lock.
kcov_remote_stop_merge(t) ==
    LET k == loc[t].kcov
        area == loc[t].area
    IN
    /\ pc[t] = "stop_merge"
    /\ klock[k] = NULL
    /\ uaf' = (uaf \/ Touch(k)
                   \/ (loc[t].sequence = kcov[k].sequence /\ kcov[k].remote
                       /\ area # NULL /\ kcov[k].area # NULL
                       /\ (mem[kcov[k].area].st = "freed" \/ mem[area].st = "freed")))
    /\ IF loc[t].sequence = kcov[k].sequence /\ kcov[k].remote
          /\ (area = NULL \/ kcov[k].area = NULL)
       THEN /\ pc' = [pc EXCEPT ![t] = "oops"]
            /\ klock' = [klock EXCEPT ![k] = t]
            /\ UNCHANGED <<mem, loc>>
       ELSE /\ mem' = IF loc[t].sequence = kcov[k].sequence /\ kcov[k].remote
                      THEN [mem EXCEPT ![kcov[k].area].w =
                               kcov_move_area(kcov[k].mode, mem[kcov[k].area].w,
                                              kcov[k].size, mem[area].w)]
                      ELSE mem
            /\ pc' = [pc EXCEPT ![t] = "rp_area"]
            /\ loc' = [loc EXCEPT ![t] = [NoLoc EXCEPT !.kcov = k, !.area = area,
                                                      !.size = loc[t].size]]
            /\ UNCHANGED klock
    /\ UNCHANGED <<kcov, kstate, file, task, kcov_remote_map, kcov_remote_areas,
                   kcov_remote_lock, last, win, nfree, log, obs>>

\* Two tasks on one descriptor of two words; the requests and calls of Spec
\* with every kcov_start, kcov_stop and kcov_task_init made store by store.
NextPub ==
    \E t \in Tasks, k \in {1} :
        \/ kcov_open(t, k)
        \/ KCOV_INIT_TRACE(t, k, 2)
        \/ kcov_mmap(t, k, 0, 2 * word_size, FALSE)
        \/ /\ kcov[k].sequence < MaxSeq
           /\ \E arg \in {0, 1} : KCOV_ENABLE_begin(t, k, arg)
        \/ KCOV_ENABLE_end(t)
        \/ /\ kcov[k].sequence < MaxSeq
           /\ \E ra \in RemoteArgs({0}, {2}, {<<1>>}, {0}) :
                 KCOV_REMOTE_ENABLE(t, k, ra, 0)
        \/ KCOV_DISABLE_begin(t, k)
        \/ KCOV_DISABLE_end(t)
        \/ kcov_close(t, k)
        \/ kcov_put(t)
        \/ kcov_put_free(t)
        \/ kcov_task_exit_begin(t)
        \/ kcov_task_exit_end(t)
        \/ kcov_remote_start(t, 1, TRUE)
        \/ \E fail \in BOOLEAN : kcov_remote_start_area_begin(t, fail)
        \/ kcov_remote_stop_begin(t)
        \/ kcov_remote_stop_merge(t)
        \/ kcov_remote_stop_area(t)
        \/ store(t)
        \/ sanitizer_cov_trace_pc(t, 7, TRUE)
        \/ write_comp_data(t, 0, 1, 2, 7, TRUE)

SpecPub == Init /\ [][NextPub]_vars

\* ================================================================ claims

\* The references the specification counts on descriptor k: its open file, its
\* attached owner task, and the remote windows in flight on it.
Refs(k) ==
    (IF file[k] THEN 1 ELSE 0) + (IF kcov[k].t # NULL THEN 1 ELSE 0)
    + Cardinality({u \in Tasks : win[u].kcov = k /\ pc[u] \notin {"dead", "oops"}})

\* No task is inside a kcov_put on descriptor k.
Quiet(k) == \A u \in Tasks : pc[u] \in {"put", "put_free"} => loc[u].kcov # k

\* C1: refcount closure.  No freed descriptor, area or registry entry is ever
\* accessed; the refcount never goes below zero; no descriptor is freed twice;
\* a freed descriptor has no open file, owner or window left; and a descriptor
\* with none of them left (and no kcov_put on it under way) has been freed.
C1_RefcountClosure ==
    /\ ~uaf
    /\ \A k \in Kcovs :
          /\ kcov[k].refcount >= 0
          /\ nfree[k] <= 1
          /\ kstate[k] = "freed" => Refs(k) = 0
          /\ (kstate[k] = "live" /\ Quiet(k)) => Refs(k) > 0

\* C2: sequence invalidation.  A kcov_remote_stop that ends a window inside
\* which KCOV_DISABLE ran on the window's descriptor leaves every buffer as it
\* was (no merge), whatever was enabled again in between.
C2_SequenceInvalidation ==
    [][\A t \in Tasks :
          (win[t].started /\ win[t].disabled /\ task[t].kcov = win[t].kcov
           /\ kcov_remote_stop(t)) => mem' = mem]_vars

\* C2 witness: such a stop has run, on a descriptor that is remote-enabled
\* again, with records in the scratch buffer it drops.
C2_Witness ==
    \E t \in Tasks :
        /\ pc[t] = "rp_area"
        /\ win[t].started /\ win[t].disabled
        /\ loc[t].kcov = win[t].kcov
        /\ kcov[loc[t].kcov].remote
        /\ kcov_remote_find(kcov_remote_map, 1) # 0
        /\ loc[t].area # NULL
        /\ mem[loc[t].area].w[1] > 0
        /\ mem[kcov[loc[t].kcov].area].w[1] = 0

\* C3: PC buffer bound.  While a task is in TRACE_PC mode on a buffer of N
\* words, the count never exceeds N - 1, the words after it are the PCs of the
\* first N - 1 recorded calls in call order, and nothing else was written
\* (calls made when the buffer is full left it as it was).
C3_PCBufferBound ==
    \A t \in Tasks : task[t].kcov_mode = "TRACE_PC" =>
        LET N == task[t].kcov_size
            w == mem[task[t].kcov_area].w
        IN  /\ Len(w) = N
            /\ w[1] <= N - 1
            /\ w[1] = Min(Len(log), N - 1)
            /\ \A i \in 1..w[1] : w[i + 1] = log[i][1]
            /\ \A i \in (w[1] + 2)..N : w[i] = 0

\* C3 witness: size 2 and 5 calls leave [1, P1].
C3_Witness ==
    /\ task[1].kcov_mode = "TRACE_PC"
    /\ task[1].kcov_size = 2
    /\ Len(log) = 5
    /\ mem[task[1].kcov_area].w = <<1, log[1][1]>>
    /\ log[2][1] # log[1][1]

\* Whether a record fits behind `count` records in a CMP buffer of N words.
CmpFits(count, N) == (1 + (count + 1) * 4) * 8 <= N * word_size

\* C9: CMP capacity and layout.  While a task is in TRACE_CMP mode on a buffer
\* of N words, each recorded call appended its record iff the record fitted:
\* the count is the number of calls up to the first that did not fit, record i
\* is (type, arg1, arg2, ip) of call i, nothing else was written, and no store
\* fell outside the N words.
C9_CmpLayout ==
    \A t \in Tasks : task[t].kcov_mode = "TRACE_CMP" =>
        LET N == task[t].kcov_size
            w == mem[task[t].kcov_area].w
            c == w[1]
        IN  /\ Len(w) = N
            /\ c <= Len(log)
            /\ c < Len(log) => ~CmpFits(c, N)
            /\ c > 0 => CmpFits(c - 1, N)
            /\ \A i \in 1..c : \A j \in 1..4 : w[1 + 4 * (i - 1) + j] = log[i][j]
            /\ \A i \in (2 + 4 * c)..N : w[i] = 0

\* C9 witness: 9 words take two records and drop the third call.
C9_Witness ==
    /\ task[1].kcov_mode = "TRACE_CMP"
    /\ task[1].kcov_size = 9
    /\ Len(log) = 3
    /\ mem[task[1].kcov_area].w = <<2>> \o log[1] \o log[2]
    /\ log[1] # log[2]

\* The merge a stop by task t is about to do, as the specification states it.
MergeAsSpecified(t) ==
    LET k == task[t].kcov
        dst == mem[kcov[k].area].w
        new == mem'[kcov[k].area].w
        src == mem[task[t].kcov_area].w
        e == IF kcov[k].mode = "TRACE_PC" THEN 1 ELSE 4
        cap == (kcov[k].size * word_size - word_size) \div (e * word_size)
        d == dst[1]
        s == src[1]
    IN  d <= cap =>
           /\ new[1] = Min(d + s, cap)
           /\ Len(new) = Len(dst)
           /\ \A i \in 2..(1 + d * e) : new[i] = dst[i]
           /\ \A j \in 1..((new[1] - d) * e) : new[1 + d * e + j] = src[1 + j]

\* C4: remote merge bound.  The stop of a started window (nothing disabled the
\* descriptor meanwhile) merges: the destination count becomes
\* min(d + s, floor((c * word - count_size) / entry_size)), the d records
\* already there stay, and the new ones are the first source records in order.
C4_RemoteMergeBound ==
    [][\A t \in Tasks :
          (win[t].started /\ ~win[t].disabled /\ task[t].kcov = win[t].kcov
           /\ kcov_remote_stop(t)) => MergeAsSpecified(t)]_vars

\* C4 witness: a PC destination of 3 words that held one record has taken the
\* first of two source records.
C4_Witness ==
    /\ pc[2] = "rp_area"
    /\ kcov[1].mode = "TRACE_PC"
    /\ mem[loc[2].area].w[1] = 2
    /\ mem[loc[2].area].w[2] = 12
    /\ mem[kcov[1].area].w = <<2, 11, 12>>

\* Everything a request can change: descriptors, tasks, locks, positions,
\* the registry, the free-list and the buffers.
ProgVars ==
    <<kcov, kstate, file, klock, task, pc, loc, kcov_remote_map,
      kcov_remote_areas, kcov_remote_lock, mem>>

\* The step is the return of request cmd made by task t on descriptor k.
Called(t, k, cmd) == last'.t = t /\ last'.k = k /\ last'.cmd = cmd

\* C5: at most one owner.  A KCOV_ENABLE (with a valid mode) on a descriptor
\* that has an owner, and a KCOV_ENABLE by a task attached to one descriptor
\* on another that is initialised and mapped, return EBUSY and change nothing.
C5_AtMostOneOwner ==
    [][\A t \in Tasks, k \in Kcovs :
          Called(t, k, "ENABLE") =>
          \A arg \in {0, 1} :
             (/\ \/ kcov[k].t # NULL
                 \/ /\ task[t].kcov \notin {NULL, k}
                    /\ kcov[k].mode = "INIT"
                    /\ kcov[k].area # NULL
              /\ KCOV_ENABLE(t, k, arg))
             => (last'.res = "EBUSY" /\ UNCHANGED ProgVars)]_vars

\* C6: state-machine legality.  Each request made where the state machine
\* does not allow it returns its documented error and changes nothing:
\* INIT_TRACE outside DISABLED (EBUSY) or with a size out of range (EINVAL);
\* ENABLE and REMOTE_ENABLE outside INIT or without an area (EINVAL), or, where
\* the request is otherwise allowed, with an unknown trace mode (EINVAL);
\* DISABLE with a non-zero argument or by a task that is not the owner
\* (EINVAL); mmap outside INIT, at a non-zero offset or with a wrong length
\* (EINVAL once the candidate region is allocated, ENOMEM if it cannot be);
\* an unknown request (ENOTTY).
C6_StateMachineLegality ==
    [][\A t \in Tasks, k \in Kcovs :
        /\ Called(t, k, "INIT_TRACE") =>
           \A n \in CtlSizes :
              /\ (kcov[k].mode # "DISABLED" /\ KCOV_INIT_TRACE(t, k, n))
                 => (last'.res = "EBUSY" /\ UNCHANGED ProgVars)
              /\ (/\ kcov[k].mode = "DISABLED"
                  /\ (n < 2 \/ n > INT_MAX \div word_size)
                  /\ KCOV_INIT_TRACE(t, k, n))
                 => (last'.res = "EINVAL" /\ UNCHANGED ProgVars)
        /\ Called(t, k, "ENABLE") =>
           \A arg \in 0..2 :
              (/\ \/ kcov[k].mode # "INIT"
                  \/ kcov[k].area = NULL
                  \/ (kcov[k].t = NULL /\ task[t].kcov = NULL /\ arg \notin {0, 1})
               /\ KCOV_ENABLE(t, k, arg))
              => (last'.res = "EINVAL" /\ UNCHANGED ProgVars)
        /\ Called(t, k, "REMOTE_ENABLE") =>
           \A c \in CtlCalls :
              (/\ \/ kcov[k].mode # "INIT"
                  \/ kcov[k].area = NULL
                  \/ /\ kcov[k].t = NULL /\ task[t].kcov = NULL
                     /\ c.ra.trace_mode \notin {0, 1}
               /\ KCOV_REMOTE_ENABLE(t, k, c.ra, c.failAt))
              => (last'.res = "EINVAL" /\ UNCHANGED ProgVars)
        /\ Called(t, k, "DISABLE") =>
           \A arg \in {0, 1} :
              ((arg # 0 \/ kcov[k].t # t) /\ KCOV_DISABLE(t, k, arg))
              => (last'.res = "EINVAL" /\ UNCHANGED ProgVars)
        /\ Called(t, k, "mmap") =>
           \A pgoff \in {0, 1}, n \in {2, 3}, nomem \in BOOLEAN :
              (/\ \/ kcov[k].mode # "INIT"
                  \/ pgoff # 0
                  \/ n * word_size # kcov[k].size * word_size
               /\ kcov_mmap(t, k, pgoff, n * word_size, nomem))
              => (/\ last'.res = IF nomem THEN "ENOMEM" ELSE "EINVAL"
                  /\ UNCHANGED ProgVars)
        /\ (Called(t, k, "unknown") /\ kcov_ioctl_unknown(t, k))
              => (last'.res = "ENOTTY" /\ UNCHANGED ProgVars)]_vars

\* C6 witness: a KCOV_DISABLE by a task that is not the owner, on a descriptor
\* that another task owns, has returned EINVAL.
C6_Witness ==
    /\ last.cmd = "DISABLE"
    /\ last.res = "EINVAL"
    /\ kcov[last.k].t \notin {NULL, last.t}
    /\ kcov[last.k].mode = "TRACE_PC"
    /\ task[last.t].kcov = NULL

\* The handles registered in the table, and the table without the entries of
\* descriptor k.
HandlesOf(map) == {map[i].handle : i \in 1..Len(map)}

EntriesNotOf(map, k) ==
    [i \in 1..Cardinality({j \in 1..Len(map) : map[j].kcov # k}) |->
        map[CHOOSE j \in 1..Len(map) :
               /\ map[j].kcov # k
               /\ Cardinality({l \in 1..j : map[l].kcov # k}) = i]]

\* A handle of the list is registered already, or the list has one twice.
Overlaps(hs, map) ==
    \/ \E i \in 1..Len(hs) : hs[i] \in HandlesOf(map)
    \/ \E i, j \in 1..Len(hs) : i < j /\ hs[i] = hs[j]

\* C7: handle uniqueness.  The table never holds two entries with one handle.
\* A KCOV_REMOTE_ENABLE that passes the state checks with a handle list that
\* overlaps the table or itself fails with EEXIST (no kmalloc failing before the
\* overlap is met); a failing call inserts entries of its own descriptor only,
\* which had none, and has removed them all when it returns.
C7_HandleUniqueness ==
    /\ [](\A i, j \in 1..Len(kcov_remote_map) :
             kcov_remote_map[i].handle = kcov_remote_map[j].handle => i = j)
    /\ [][\A t \in Tasks, k \in Kcovs :
            /\ (/\ pc[t] = "idle"
                /\ kcov[k].mode = "INIT" /\ kcov[k].area # NULL
                /\ kcov[k].t = NULL /\ task[t].kcov = NULL
                /\ (pc'[t] = "re_fail" \/ Called(t, k, "REMOTE_ENABLE"))) =>
               \A c \in CtlCalls :
                  (/\ c.ra.unused = 0
                   /\ c.ra.trace_mode \in {0, 1}
                   /\ KCOV_REMOTE_ENABLE(t, k, c.ra, c.failAt))
                  => /\ EntriesNotOf(kcov_remote_map, k) = kcov_remote_map
                     /\ EntriesNotOf(kcov_remote_map', k) = kcov_remote_map
                     /\ (Overlaps(c.ra.handles, kcov_remote_map) /\ c.failAt = 0)
                        => (pc'[t] = "re_fail" /\ loc'[t].err = "EEXIST")
            /\ (pc[t] = "re_fail" /\ loc[t].kcov = k /\ KCOV_REMOTE_ENABLE_fail(t))
                  => /\ last' = [t |-> t, k |-> k, cmd |-> "REMOTE_ENABLE",
                                 res |-> loc[t].err]
                     /\ loc[t].err \in {"EEXIST", "ENOMEM"}
                     /\ kcov_remote_map' = EntriesNotOf(kcov_remote_map, k)]_vars

\* C7 witness: a call has failed with EEXIST on a handle that another
\* descriptor holds, and the table is that descriptor's entry again.
C7_Witness ==
    /\ last.cmd = "REMOTE_ENABLE"
    /\ last.res = "EEXIST"
    /\ pc[last.t] = "idle"
    /\ Len(kcov_remote_map) = 1
    /\ kcov_remote_map[1].kcov # last.k
    /\ kcov[last.k].mode = "INIT"

\* C8: rollback of a failed KCOV_REMOTE_ENABLE.  When the call has returned
\* EEXIST or ENOMEM the descriptor is in INIT with no owner and remote false,
\* and the calling task is attached to no descriptor.
C8_RollbackComplete ==
    (last.cmd = "REMOTE_ENABLE" /\ last.res \in {"EEXIST", "ENOMEM"})
    => /\ kcov[last.k].mode = "INIT"
       /\ kcov[last.k].t = NULL
       /\ ~kcov[last.k].remote
       /\ task[last.t].kcov = NULL

\* C10: silent no-op paths.  A sink called outside task context, or by a task
\* whose mode is not the sink's, leaves every buffer as it was; a
\* kcov_remote_start outside task context, by an attached task, or with a
\* handle that is not registered changes nothing at all.
C10_SilentNoOps ==
    [][\A t \in Tasks, in_task \in BOOLEAN :
        /\ (/\ Called(t, NULL, "trace_pc")
            /\ (~in_task \/ task[t].kcov_mode # "TRACE_PC")
            /\ sanitizer_cov_trace_pc(t, 11, in_task))
           => mem' = mem
        /\ (/\ Called(t, NULL, "trace_cmp")
            /\ (~in_task \/ task[t].kcov_mode # "TRACE_CMP")
            /\ write_comp_data(t, 0, 1, 2, 11, in_task))
           => mem' = mem
        /\ Called(t, NULL, "remote_start") =>
           \A h \in Handles :
              (/\ \/ ~in_task
                  \/ task[t].kcov # NULL
                  \/ h \notin HandlesOf(kcov_remote_map)
               /\ kcov_remote_start(t, h, in_task))
              => UNCHANGED ProgVars]_vars

\* C10 witness: the owner of a remote-enabled descriptor has called
\* kcov_remote_start in task context while handle 1 was registered and no
\* window was open, and no window is open.
C10_Witness ==
    /\ last.cmd = "remote_start"
    /\ last.res = "task"
    /\ \A u \in Tasks : pc[u] = "idle" /\ win[u] = NoWin
    /\ task[last.t].kcov # NULL
    /\ kcov[task[last.t].kcov].t = last.t
    /\ kcov[task[last.t].kcov].remote
    /\ HandlesOf(kcov_remote_map) = {1}
    /\ kcov_remote_areas = <<>>

\* C11: single mapping.  A valid mmap (mode INIT, offset 0, length size * 8,
\* region allocated) returns success; it attaches its region when the
\* descriptor has no area and otherwise changes nothing.  While the descriptor
\* is not freed, no step of any request, of task exit or of kcov_remote_stop
\* replaces or clears an attached area.
C11_SingleMapping ==
    [][\A k \in Kcovs :
        /\ (kcov[k].area # NULL /\ kstate'[k] = "live")
           => kcov'[k].area = kcov[k].area
        /\ \A t \in Tasks :
              (/\ Called(t, k, "mmap")
               /\ kcov[k].mode = "INIT"
               /\ kcov_mmap(t, k, 0, kcov[k].size * word_size, FALSE))
              => /\ last'.res = "OK"
                 /\ IF kcov[k].area = NULL
                    THEN /\ kcov'[k].area # NULL
                         /\ mem'[kcov'[k].area].st = "live"
                         /\ mem'[kcov'[k].area].w = Zeros(kcov[k].size)
                    ELSE UNCHANGED ProgVars]_vars

\* C11 witness: a second valid mmap has returned success on a descriptor that
\* went through ENABLE and DISABLE, and the area still holds the recorded PC.
C11_Witness ==
    /\ last.cmd = "mmap"
    /\ last.res = "OK"
    /\ kcov[last.k].mode = "INIT"
    /\ kcov[last.k].sequence >= 2
    /\ kcov[last.k].area # NULL
    /\ mem[kcov[last.k].area].w = <<1, 7>>

\* C12: rollback of kcov_remote_start when vmalloc fails.  A task that is about
\* to release the reference of a window that never started, which is all the
\* failing call has left to do, is attached to no descriptor and its mode is
\* DISABLED.
C12_StartRollback ==
    \A t \in Tasks :
        (pc[t] = "put" /\ win[t].kcov # NULL /\ ~win[t].started)
        => (task[t].kcov = NULL /\ task[t].kcov_mode = "DISABLED")

\* C13 as stated: the kcov_remote_stop of a started window inside which the
\* descriptor's file was closed, or the descriptor's owner exited, merges
\* nothing.
C13_CloseOrExitInvalidates ==
    [][\A t \in Tasks :
          (/\ win[t].started /\ (win[t].closed \/ win[t].exited)
           /\ task[t].kcov = win[t].kcov
           /\ kcov_remote_stop(t)) => mem' = mem]_vars

\* C13: the exit of the owner invalidates in-flight windows.  The
\* kcov_remote_stop of a started window inside which the descriptor's owner
\* exited merges nothing, whether the file was closed or not.
C13_ExitInvalidates ==
    [][\A t \in Tasks :
          (/\ win[t].started /\ win[t].exited
           /\ task[t].kcov = win[t].kcov
           /\ kcov_remote_stop(t)) => mem' = mem]_vars

\* C13 witness: such a stop has run after the owner's exit and has left the
\* record of its scratch buffer out of the descriptor's empty area.
C13_Witness ==
    \E t \in Tasks :
        /\ pc[t] = "rp_area"
        /\ win[t].started /\ win[t].exited /\ ~win[t].disabled
        /\ loc[t].kcov = win[t].kcov
        /\ loc[t].area # NULL
        /\ mem[loc[t].area].w[1] > 0
        /\ mem[kcov[loc[t].kcov].area].w[1] = 0

\* C14: the task-exit hook.  When a task attached to descriptor k exits,
\* kcov_task_exit clears the task's back-reference and goes on to release one
\* reference on k, whether the task is the owner of k or not; when it is the
\* owner, k is reset to INIT with no owner and its handles are gone.
C14_TaskExitHook ==
    [][\A t \in Tasks :
          (task[t].kcov # NULL /\ kcov_task_exit(t))
          => LET k == task[t].kcov IN
             /\ task'[t].kcov = NULL
             /\ pc'[t] = "put" /\ loc'[t].kcov = k
             /\ kcov[k].t = t
                => /\ kcov'[k].mode = "INIT"
                   /\ kcov'[k].t = NULL
                   /\ ~kcov'[k].remote
                   /\ \A i \in 1..Len(kcov_remote_map') :
                         kcov_remote_map'[i].kcov # k]_vars

\* C15: descriptor state invariant.  In every state in which the lock of a
\* live descriptor is free: mode INIT implies no owner and remote false; mode
\* TRACE_PC or TRACE_CMP implies that the owner is a task, the area is set and
\* the owner's t->kcov points to this descriptor; no task is the owner of two
\* descriptors.
C15_DescriptorInvariant ==
    /\ \A k \in Kcovs :
          (kstate[k] = "live" /\ klock[k] = NULL)
          => /\ kcov[k].mode = "INIT" => (kcov[k].t = NULL /\ ~kcov[k].remote)
             /\ kcov[k].mode \in {"TRACE_PC", "TRACE_CMP"}
                => /\ kcov[k].t \in Tasks
                   /\ kcov[k].area # NULL
                   /\ task[kcov[k].t].kcov = k
    /\ \A k1, k2 \in Kcovs :
          (kstate[k1] = "live" /\ kstate[k2] = "live" /\ kcov[k1].t # NULL
           /\ kcov[k1].t = kcov[k2].t) => k1 = k2

\* The descriptor locks task t holds.
HeldKcovLocks(t) == {k \in Kcovs : klock[k] = t}

\* Task t is at a spin_lock whose lock is held.
Spinning(t) == AtOp(t, "spin_lock") /\ Holder(t) # NULL

\* A set of tasks each of which spins on a lock held by a task of the set.
Deadlock ==
    \E S \in SUBSET Tasks :
        S # {} /\ \A t \in S : Spinning(t) /\ Holder(t) \in S

\* C16: lock order.  A task takes a descriptor lock only while it holds no
\* lock at all (never while it holds kcov_remote_lock); it takes
\* kcov_remote_lock while it holds nothing or one descriptor lock; and no
\* state is a deadlock.
C16_LockOrder ==
    /\ []~Deadlock
    /\ [][\A t \in Tasks :
             /\ \A k \in Kcovs :
                   (klock[k] # t /\ klock'[k] = t)
                   => (kcov_remote_lock # t /\ HeldKcovLocks(t) = {})
             /\ (kcov_remote_lock # t /\ kcov_remote_lock' = t)
                => Cardinality(HeldKcovLocks(t)) <= 1]_vars

\* Task 1 holds the lock of descriptor 1 and, inside it, kcov_remote_lock,
\* while task 2 spins on kcov_remote_lock.
C16_Witness ==
    /\ klock[1] = 1
    /\ kcov_remote_lock = 1
    /\ Spinning(2)
    /\ Head(loc[2].todo).obj = "kcov_remote_lock"

\* Task t is about to read or write the handle table or the free-list.
Accessing(t, obj) == AtOp(t, "access") /\ Head(loc[t].todo).obj = obj

\* C17: registry lock coverage.  A task that is at an access to the handle
\* table or to the free-list holds kcov_remote_lock, so no two tasks are at
\* an access to the free-list at the same time.
C17_RegistryLockCoverage ==
    /\ \A t \in Tasks : AtOp(t, "access") => kcov_remote_lock = t
    /\ \A t1, t2 \in Tasks :
          (Accessing(t1, "kcov_remote_areas") /\ Accessing(t2, "kcov_remote_areas"))
          => t1 = t2

\* The part of C17 about the handle table: every access to kcov_remote_map is
\* made with kcov_remote_lock held.
C17_HandleTableCovered ==
    \A t \in Tasks : Accessing(t, "kcov_remote_map") => kcov_remote_lock = t

\* Two tasks at the free-list at once: kcov_remote_area_get of one
\* kcov_remote_start and kcov_remote_area_put of a kcov_remote_stop.
C17_Race ==
    /\ Accessing(1, "kcov_remote_areas") /\ kcov_remote_lock # 1
    /\ Accessing(2, "kcov_remote_areas") /\ kcov_remote_lock = 2

\* C18: publication order.  In every state, between any two stores of
\* kcov_start, kcov_stop and kcov_task_init too, a task whose kcov_mode is
\* TRACE_PC or TRACE_CMP has a kcov_area that is a live buffer of exactly
\* kcov_size words.
C18_PublicationOrder ==
    \A t \in Tasks :
        task[t].kcov_mode \in {"TRACE_PC", "TRACE_CMP"}
        => /\ task[t].kcov_area # NULL
           /\ mem[task[t].kcov_area].st = "live"
           /\ Len(mem[task[t].kcov_area].w) = task[t].kcov_size

\* Inside kcov_start of a remote window, the mode stored and the sequence not
\* yet, the sink has run and recorded a PC in the scratch buffer.
C18_Witness ==
    \E t \in Tasks :
        /\ pc[t] = "stores"
        /\ Head(loc[t].todo).field = "kcov_sequence"
        /\ task[t].kcov_mode = "TRACE_PC"
        /\ task[t].kcov_area \in ScratchIds
        /\ mem[task[t].kcov_area].w[1] = 1

\* What C19 says of the merge in the stop of task t: dst and new are the words
\* of the destination before and after, src those of the task's buffer.
MergeIsSafe(t) ==
    LET k == task[t].kcov
        dst == mem[kcov[k].area].w
        new == mem'[kcov[k].area].w
        src == mem[task[t].kcov_area].w
        known == kcov[k].mode \in {"TRACE_PC", "TRACE_CMP"}
        e == IF kcov[k].mode = "TRACE_PC" THEN 1 ELSE KCOV_WORDS_PER_CMP
        cap == (kcov[k].size * word_size - word_size) \div (e * word_size)
        d == dst[1]
        moved == kcov_move_bytes(kcov[k].mode, dst, kcov[k].size, src) \div word_size
    IN  /\ Len(new) = kcov[k].size
        /\ (~known \/ d > cap) => new = dst
        /\ (known /\ d <= cap)
           => /\ \A i \in 2..(1 + d * e) : new[i] = dst[i]
              /\ new[1] <= cap
              /\ 1 + moved <= Len(src)

\* C19: the merge is memory-safe for any destination count.  Whatever
\* userspace stored to the count word of the destination, the merge of
\* kcov_remote_stop leaves the destination as long as it was; it changes
\* nothing when the count is above the capacity; otherwise it writes only the
\* count word and words from count_size + count * entry_size on, reads only
\* words of the source buffer, and publishes a count within the capacity.
C19_MergeMemorySafe ==
    [][\A t \in Tasks :
          (/\ task[t].kcov # NULL
           /\ task[t].kcov_area # NULL
           /\ kcov[task[t].kcov].area # NULL
           /\ kcov[task[t].kcov].remote
           /\ task[t].kcov_sequence = kcov[task[t].kcov].sequence
           /\ kcov_remote_stop(t)) => MergeIsSafe(t)]_vars

\* Both cases of C19 in a destination of 3 words: userspace stored count 1
\* over an empty buffer and a stop merged its record behind it (count 2, the
\* record in word 2); then userspace stored INT_MAX and the stop of a second
\* window, the most recent call, left the buffer as it was.
C19_Witness ==
    /\ last.cmd = "remote_stop"
    /\ pc[2] = "rp_area"
    /\ mem[loc[2].area].w[1] > 0
    /\ kcov[1].size = 3
    /\ mem[1].w[1] = INT_MAX
    /\ mem[1].w[2] = 0
    /\ mem[1].w[3] \in PCs

\* The most recent call was a kcov_remote_start by task t that returned
\* without attaching: not in task context, or t was attached as the owner of
\* its descriptor, or the handle was unknown to an unattached t.
StartDidNotAttach(t) ==
    /\ last.cmd = "remote_start"
    /\ last.t = t
    /\ pc[t] = "idle"
    /\ \/ last.res = "irq"
       \/ task[t].kcov = NULL
       \/ kcov[task[t].kcov].t = t

\* C20: an unmatched kcov_remote_stop tears nothing down.  The
\* kcov_remote_stop that follows a kcov_remote_start which returned without
\* attaching leaves the task's t->kcov, mode, area and size, the refcounts
\* and the free-list as they were, and returns.
C20_UnmatchedStop ==
    [][\A t \in Tasks :
          (StartDidNotAttach(t) /\ kcov_remote_stop(t))
          => /\ task'[t] = task[t]
             /\ kcov' = kcov
             /\ kcov_remote_areas' = kcov_remote_areas
             /\ pc'[t] = "idle"]_vars

\* The unmatched stop of an unattached task does return with nothing changed.
C20_UnattachedStop ==
    [][\A t \in Tasks :
          (StartDidNotAttach(t) /\ task[t].kcov = NULL /\ kcov_remote_stop(t))
          => /\ task'[t] = task[t]
             /\ kcov' = kcov
             /\ kcov_remote_areas' = kcov_remote_areas
             /\ pc'[t] = "idle"]_vars

\* The places buffer b is in: its positions on the free-list, and the tasks
\* that have it as their kcov_area or, inside kcov_remote_stop, as the local
\* `area` that is about to be put on the free-list.
ListPlaces(b) == {i \in 1..Len(kcov_remote_areas) : kcov_remote_areas[i] = b}

TaskPlaces(b) ==
    {t \in Tasks : \/ task[t].kcov_area = b
                   \/ (pc[t] = "rp_area" /\ loc[t].area = b)}

\* The scratch buffers are in one place each, and have the size of the window
\* that holds them.
ScratchInOnePlace ==
    \A b \in ScratchIds :
        mem[b].st # "none"
        => /\ Cardinality(ListPlaces(b)) + Cardinality(TaskPlaces(b)) = 1
           /\ \A t \in Tasks : task[t].kcov_area = b
                                => Len(mem[b].w) = task[t].kcov_size

\* C21: scratch-buffer exclusivity.  Each scratch buffer is either once on the
\* free-list or held by exactly one task; a buffer held for a window has the
\* size the window snapshotted; and the area of a descriptor, which userspace
\* has mapped, is never on the free-list.
C21_ScratchExclusive ==
    /\ ScratchInOnePlace
    /\ \A k \in Kcovs : ListPlaces(k) = {}

\* Descriptor k is live and inside a remote-enable epoch.
RemoteEnabled(k) ==
    /\ kstate[k] = "live"
    /\ kcov[k].remote
    /\ kcov[k].mode \in {"TRACE_PC", "TRACE_CMP"}
    /\ kcov[k].t # NULL

\* C22: registry entries reference only live, remote-enabled descriptors.
\* Whenever kcov_remote_lock is free every entry of the handle table points to
\* a descriptor that is not freed, has remote set, mode TRACE_PC or TRACE_CMP
\* and an owner; and the remote_size, mode and sequence that a
\* kcov_remote_start reads are those of that descriptor in that epoch.
C22_RegistryEntriesLive ==
    /\ [](kcov_remote_lock = NULL
             => \A i \in 1..Len(kcov_remote_map) :
                   RemoteEnabled(kcov_remote_map[i].kcov))
    /\ [][\A t \in Tasks :
             (pc[t] = "idle" /\ pc'[t] = "rs_area")
             => LET k == loc'[t].kcov IN
                /\ RemoteEnabled(k)
                /\ loc'[t].size = kcov[k].remote_size
                /\ loc'[t].mode = kcov[k].mode
                /\ loc'[t].sequence = kcov[k].sequence]_vars

\* A kcov_remote_start has found the handle that a KCOV_REMOTE_ENABLE, now
\* failing and about to call kcov_remote_reset, had already inserted.
C22_Witness ==
    /\ pc[1] = "re_fail"
    /\ pc[2] = "rs_area"
    /\ loc[2].kcov = loc[1].kcov
    /\ loc[2].mode = "TRACE_PC"
    /\ loc[2].sequence = kcov[loc[1].kcov].sequence
====
